---------------------------- MODULE Spec2Model ----------------------------
(***************************************************************************)
(* Model of bdn::java::TypeConversion (TypeConversion.h): the conversion   *)
(* of native C++ values to JNI values and back, the ownership of the JNI   *)
(* object references involved, and the JNI signature strings.              *)
(*                                                                         *)
(* A value, native or Java, is a record [type, bytes]: its C++ or JNI type *)
(* and its object representation, least significant byte first.  A jobject *)
(* is a handle: an index into the JNI reference table refs.                *)
(***************************************************************************)
EXTENDS Integers, Sequences, FiniteSets, TLC

VARIABLES
    refs,               \* the JNI reference table: every reference ever made
    createdJavaObjects, \* std::list<Reference>: the caller's list of created objects
    incoming,           \* local jobject handles the runtime handed to native code
    natives,            \* native values returned by takeOwnership..., with their copies
    pending,            \* jobjects returned by nativeToJava, not yet consumed by the
                        \* runtime, each with the NativeType it was converted from
    lastCall,           \* the function of TypeConversion.h called last, if the last
                        \* step was a call of one, and its NativeType
    ret,                \* the Java value the last nativeToJava / getJavaSignature returned
    arg,                \* the native value handed to the last nativeToJava
    nat,                \* the native value the last takeOwnership... returned
    sigStatic           \* the function-local statics of getJavaSignature, per type

vars == <<refs, createdJavaObjects, incoming, natives, pending,
          lastCall, ret, arg, nat, sigStatic>>

ownVars == <<refs, createdJavaObjects, incoming, natives, pending>>

---------------------------------------------------------------------------
(* Bounds of the model. *)

\* JNI references (local and global) made in one run.
MaxRefs == 4
\* Simultaneous copies of one native value.
MaxCopies == 2
\* Returned jobjects the runtime has not consumed yet.
MaxPending == 2

---------------------------------------------------------------------------
(* Values. *)

Val(t, b) == [type |-> t, bytes |-> b]

NoValue == Val("void", <<>>)

\* The bytes chosen for the inputs: zero, the sign bit alone, all ones.
ByteVals == {0, 128, 255}

RECURSIVE ByteSeqs(_)
ByteSeqs(n) ==
    IF n = 0 THEN {<<>>}
    ELSE {Append(s, b) : s \in ByteSeqs(n - 1), b \in ByteVals}

\* static_cast between integral types: truncation, or extension by the sign
\* of a signed source and by zero of an unsigned one.
Cast(b, width, signed) ==
    IF width <= Len(b) THEN SubSeq(b, 1, width)
    ELSE LET fill == IF signed /\ b[Len(b)] >= 128 THEN 255 ELSE 0
         IN  b \o [i \in 1..(width - Len(b)) |-> fill]

JNI_FALSE == 0
JNI_TRUE == 1

\* sizeof, in bytes, of the native types and of their JavaType.
SizeOf(t) ==
    CASE t \in {"int8_t", "jbyte", "bool", "jboolean"} -> 1
      [] t \in {"short", "jshort", "jchar"} -> 2
      [] t \in {"int", "jint", "float", "jfloat", "char32_t", "Color"} -> 4
      [] t \in {"int64_t", "jlong", "double", "jdouble"} -> 8

---------------------------------------------------------------------------
(* bdn::java::Reference over the JNI reference table.  A Reference shares  *)
(* one strong global reference among its copies; count is the number of    *)
(* Reference copies alive, deletes the number of Delete...Ref calls made   *)
(* on the handle, by the JNI function that made the object referred to.    *)

Handle(v) == v.bytes[1]

JObject(h) == Val("jobject", <<h>>)

IsLive(h) == h \in 1..Len(refs) /\ refs[h].live

\* A new object and the local reference to it: of JNI NewStringUTF, or one
\* the runtime hands to native code.
NewLocal(r, maker, content) ==
    Append(r, [kind |-> "local", obj |-> Len(r) + 1, str |-> content,
               by |-> maker, live |-> TRUE, count |-> 0, deletes |-> 0])

\* JNI Delete(Local|Global)Ref.
DeleteRef(r, h) ==
    [r EXCEPT ![h].live = FALSE, ![h].deletes = @ + 1]

\* Reference::convertAndDestroyOwnedLocal: a new strong global reference to
\* the object, held by one Reference; the local reference is deleted.  The
\* new Reference is handle Len(r) + 1.
ConvertAndDestroyOwnedLocal(r, local) ==
    Append(DeleteRef(r, local),
           [kind |-> "global", obj |-> r[local].obj, str |-> r[local].str,
            by |-> r[local].by, live |-> TRUE, count |-> 1, deletes |-> 0])

\* Reference's copy constructor.
CopyReference(r, g) == [r EXCEPT ![g].count = @ + 1]

\* Reference's destructor: the last copy deletes the global reference.
DestroyReference(r, g) ==
    IF r[g].count = 1
    THEN DeleteRef([r EXCEPT ![g].count = 0], g)
    ELSE [r EXCEPT ![g].count = @ - 1]

RECURSIVE DestroyAll(_, _)
DestroyAll(r, list) ==
    IF list = <<>> THEN r
    ELSE DestroyAll(DestroyReference(r, Head(list)), Tail(list))

---------------------------------------------------------------------------
(* TypeConversionBase_ and bdn::Color, which TypeConversion.h only uses. *)

\* _createJString(s, createdJavaObjects): a new java.lang.String; its
\* Reference is appended to the list and its jobject returned.  The result
\* is the returned jobject with the list and the reference table afterwards.
_createJString(s, list, r) ==
    LET r1 == NewLocal(r, "NewStringUTF", s)
        r2 == ConvertAndDestroyOwnedLocal(r1, Len(r1))
    IN  [ret |-> JObject(Len(r2)), list |-> Append(list, Len(r2)), refs |-> r2]

\* _getStringFromJava(ref): the characters of the java.lang.String.
_getStringFromJava(r, g) == r[g].str

\* Color::asIntAlphaFirst: the bytes r, g, b, a packed as 0xAARRGGBB.
asIntAlphaFirst(c) == <<c[3], c[2], c[1], c[4]>>

\* Color::fromIntAlphaFirst.
fromIntAlphaFirst(j) == <<j[3], j[2], j[1], j[4]>>

---------------------------------------------------------------------------
(* TypeConversion<NATIVE_TYPE>::nativeToJava(arg, createdJavaObjects),     *)
(* one operator per specialization: the value returned (ret'), the list    *)
(* and the JNI references afterwards.                                      *)

\* wrapper_nativeToJava, were it to store the argument's Reference in the list.
wrapper_nativeToJava_Store(a) ==
    /\ ret' = JObject(Handle(a))
    /\ createdJavaObjects' = Append(createdJavaObjects, Handle(a))
    /\ refs' = CopyReference(refs, Handle(a))

\* The primary template, for the types derived from wrapper::JObject.
wrapper_nativeToJava(a) ==
    /\ ret' = JObject(Handle(a))
    /\ UNCHANGED <<createdJavaObjects, refs>>

\* string_nativeToJava, were it to take the list by value: the Reference
\* goes to a copy of the list, which is destroyed on return.
string_nativeToJava_ListByValue(a) ==
    LET c == _createJString(a.bytes, createdJavaObjects, refs)
    IN  /\ ret' = c.ret
        /\ refs' = DestroyReference(c.refs, Handle(c.ret))
        /\ UNCHANGED createdJavaObjects

\* string_nativeToJava, were it to return the local reference of
\* NewStringUTF without _createJString.
string_nativeToJava_NoList(a) ==
    /\ refs' = NewLocal(refs, "NewStringUTF", a.bytes)
    /\ ret' = JObject(Len(refs) + 1)
    /\ UNCHANGED createdJavaObjects

string_nativeToJava(a) ==
    LET c == _createJString(a.bytes, createdJavaObjects, refs)
    IN  /\ ret' = c.ret
        /\ createdJavaObjects' = c.list
        /\ refs' = c.refs

Color_nativeToJava(a) ==
    /\ ret' = Val("jint", asIntAlphaFirst(a.bytes))
    /\ UNCHANGED <<createdJavaObjects, refs>>

jobject_nativeToJava(a) ==
    /\ ret' = a
    /\ UNCHANGED <<createdJavaObjects, refs>>

int_nativeToJava(a) ==
    /\ ret' = Val("jint", Cast(a.bytes, SizeOf("jint"), TRUE))
    /\ UNCHANGED <<createdJavaObjects, refs>>

short_nativeToJava(a) ==
    /\ ret' = Val("jshort", Cast(a.bytes, SizeOf("jshort"), TRUE))
    /\ UNCHANGED <<createdJavaObjects, refs>>

double_nativeToJava(a) ==
    /\ ret' = Val("jdouble", a.bytes)
    /\ UNCHANGED <<createdJavaObjects, refs>>

float_nativeToJava(a) ==
    /\ ret' = Val("jfloat", a.bytes)
    /\ UNCHANGED <<createdJavaObjects, refs>>

\* int64_t_nativeToJava, were its JavaType jint.
int64_t_nativeToJava_AsInt(a) ==
    /\ ret' = Val("jlong", Cast(Cast(a.bytes, SizeOf("jint"), TRUE), SizeOf("jlong"), TRUE))
    /\ UNCHANGED <<createdJavaObjects, refs>>

int64_t_nativeToJava(a) ==
    /\ ret' = Val("jlong", Cast(a.bytes, SizeOf("jlong"), TRUE))
    /\ UNCHANGED <<createdJavaObjects, refs>>

\* (jchar)arg: jchar is an unsigned 16 bit type.
char32_t_nativeToJava(a) ==
    /\ ret' = Val("jchar", Cast(a.bytes, SizeOf("jchar"), FALSE))
    /\ UNCHANGED <<createdJavaObjects, refs>>

int8_t_nativeToJava(a) ==
    /\ ret' = Val("jbyte", Cast(a.bytes, SizeOf("jbyte"), TRUE))
    /\ UNCHANGED <<createdJavaObjects, refs>>

bool_nativeToJava(a) ==
    /\ ret' = Val("jboolean", <<IF a.bytes[1] # 0 THEN JNI_TRUE ELSE JNI_FALSE>>)
    /\ UNCHANGED <<createdJavaObjects, refs>>

---------------------------------------------------------------------------
(* TypeConversion<NATIVE_TYPE>::takeOwnershipOfJavaValueAndConvertToNative *)
(* (arg), one operator per specialization: the native value returned       *)
(* (nat') and the JNI references afterwards.                               *)

\* wrapper_takeOwnership..., were the native object built from the jobject
\* of the temporary Reference instead of from the Reference.
wrapper_takeOwnershipOfJavaValueAndConvertToNative_Temporary(t, j) ==
    LET r1 == ConvertAndDestroyOwnedLocal(refs, Handle(j))
    IN  /\ refs' = DestroyReference(r1, Len(r1))
        /\ nat' = Val(t, <<Len(r1)>>)

\* The primary template: NativeType(Reference::convertAndDestroyOwnedLocal(arg)).
wrapper_takeOwnershipOfJavaValueAndConvertToNative(t, j) ==
    /\ refs' = ConvertAndDestroyOwnedLocal(refs, Handle(j))
    /\ nat' = Val(t, <<Len(refs) + 1>>)

\* The temporary Reference is destroyed when the string has been read.
string_takeOwnershipOfJavaValueAndConvertToNative(j) ==
    LET r1 == ConvertAndDestroyOwnedLocal(refs, Handle(j))
        g == Len(r1)
    IN  /\ nat' = Val("string", _getStringFromJava(r1, g))
        /\ refs' = DestroyReference(r1, g)

Color_takeOwnershipOfJavaValueAndConvertToNative(j) ==
    /\ nat' = Val("Color", fromIntAlphaFirst(j.bytes))
    /\ UNCHANGED refs

jobject_takeOwnershipOfJavaValueAndConvertToNative(j) ==
    /\ nat' = j
    /\ UNCHANGED refs

int_takeOwnershipOfJavaValueAndConvertToNative(j) ==
    /\ nat' = Val("int", Cast(j.bytes, SizeOf("int"), TRUE))
    /\ UNCHANGED refs

short_takeOwnershipOfJavaValueAndConvertToNative(j) ==
    /\ nat' = Val("short", Cast(j.bytes, SizeOf("short"), TRUE))
    /\ UNCHANGED refs

double_takeOwnershipOfJavaValueAndConvertToNative(j) ==
    /\ nat' = Val("double", j.bytes)
    /\ UNCHANGED refs

float_takeOwnershipOfJavaValueAndConvertToNative(j) ==
    /\ nat' = Val("float", j.bytes)
    /\ UNCHANGED refs

int64_t_takeOwnershipOfJavaValueAndConvertToNative(j) ==
    /\ nat' = Val("int64_t", Cast(j.bytes, SizeOf("int64_t"), TRUE))
    /\ UNCHANGED refs

\* jchar to char32_t: the implicit conversion of an unsigned 16 bit value.
char32_t_takeOwnershipOfJavaValueAndConvertToNative(j) ==
    /\ nat' = Val("char32_t", Cast(j.bytes, SizeOf("char32_t"), FALSE))
    /\ UNCHANGED refs

int8_t_takeOwnershipOfJavaValueAndConvertToNative(j) ==
    /\ nat' = Val("int8_t", Cast(j.bytes, SizeOf("int8_t"), TRUE))
    /\ UNCHANGED refs

bool_takeOwnershipOfJavaValueAndConvertToNative(j) ==
    /\ nat' = Val("bool", <<IF j.bytes[1] # JNI_FALSE THEN 1 ELSE 0>>)
    /\ UNCHANGED refs

---------------------------------------------------------------------------
(* The types. *)

\* Two classes derived from wrapper::JObject stand for the primary template.
WrapperTypes == {"wrapper::Object", "wrapper::String"}

ObjectTypes == WrapperTypes \cup {"string", "jobject"}

PrimTypes == {"Color", "int", "short", "double", "float", "int64_t",
              "char32_t", "int8_t", "bool"}

SigTypes == ObjectTypes \cup PrimTypes \cup {"void"}

\* NativeType::getStaticClass_(): the Java class of a wrapper type.
getStaticClass_(t) ==
    CASE t = "wrapper::Object" -> "java/lang/Object"
      [] t = "wrapper::String" -> "java/lang/String"

\* Class::getSignature_().
getSignature_(cls) == "L" \o cls \o ";"

---------------------------------------------------------------------------
(* getJavaSignature(): a function-local static std::string, constructed on *)
(* the first call and returned by value on every call.                     *)

\* SigInitializer, were bool given the signature of int8_t.
SigInitializer_BoolAsByte(t) ==
    CASE t \in WrapperTypes -> getSignature_(getStaticClass_(t))
      [] t = "string" -> "Ljava/lang/String;"
      [] t = "jobject" -> "Ljava/lang/Object;"
      [] t \in {"Color", "int"} -> "I"
      [] t = "short" -> "S"
      [] t = "double" -> "D"
      [] t = "float" -> "F"
      [] t = "int64_t" -> "J"
      [] t = "char32_t" -> "C"
      [] t \in {"int8_t", "bool"} -> "B"
      [] t = "void" -> "V"

SigInitializer(t) ==
    CASE t \in WrapperTypes -> getSignature_(getStaticClass_(t))
      [] t = "string" -> "Ljava/lang/String;"
      [] t = "Color" -> "I"
      [] t = "jobject" -> "Ljava/lang/Object;"
      [] t = "int" -> "I"
      [] t = "short" -> "S"
      [] t = "double" -> "D"
      [] t = "float" -> "F"
      [] t = "int64_t" -> "J"
      [] t = "char32_t" -> "C"
      [] t = "int8_t" -> "B"
      [] t = "bool" -> "Z"
      [] t = "void" -> "V"

getJavaSignature(t) ==
    LET sig == IF sigStatic[t].init THEN sigStatic[t].sig ELSE SigInitializer(t)
    IN  /\ sigStatic' = [sigStatic EXCEPT ![t] = [init |-> TRUE, sig |-> sig]]
        /\ ret' = Val("std::string", sig)

---------------------------------------------------------------------------
(* The convenience functions: the dispatch on NativeType. *)

nativeToJava(a) ==
    CASE a.type \in WrapperTypes -> wrapper_nativeToJava(a)
      [] a.type = "string" -> string_nativeToJava(a)
      [] a.type = "Color" -> Color_nativeToJava(a)
      [] a.type = "jobject" -> jobject_nativeToJava(a)
      [] a.type = "int" -> int_nativeToJava(a)
      [] a.type = "short" -> short_nativeToJava(a)
      [] a.type = "double" -> double_nativeToJava(a)
      [] a.type = "float" -> float_nativeToJava(a)
      [] a.type = "int64_t" -> int64_t_nativeToJava(a)
      [] a.type = "char32_t" -> char32_t_nativeToJava(a)
      [] a.type = "int8_t" -> int8_t_nativeToJava(a)
      [] a.type = "bool" -> bool_nativeToJava(a)

takeOwnershipOfJavaValueAndConvertToNative(t, j) ==
    CASE t \in WrapperTypes -> wrapper_takeOwnershipOfJavaValueAndConvertToNative(t, j)
      [] t = "string" -> string_takeOwnershipOfJavaValueAndConvertToNative(j)
      [] t = "Color" -> Color_takeOwnershipOfJavaValueAndConvertToNative(j)
      [] t = "jobject" -> jobject_takeOwnershipOfJavaValueAndConvertToNative(j)
      [] t = "int" -> int_takeOwnershipOfJavaValueAndConvertToNative(j)
      [] t = "short" -> short_takeOwnershipOfJavaValueAndConvertToNative(j)
      [] t = "double" -> double_takeOwnershipOfJavaValueAndConvertToNative(j)
      [] t = "float" -> float_takeOwnershipOfJavaValueAndConvertToNative(j)
      [] t = "int64_t" -> int64_t_takeOwnershipOfJavaValueAndConvertToNative(j)
      [] t = "char32_t" -> char32_t_takeOwnershipOfJavaValueAndConvertToNative(j)
      [] t = "int8_t" -> int8_t_takeOwnershipOfJavaValueAndConvertToNative(j)
      [] t = "bool" -> bool_takeOwnershipOfJavaValueAndConvertToNative(j)

Call(fn, t) == [fn |-> fn, type |-> t]

---------------------------------------------------------------------------
(* The inputs. *)

\* The characters of the std::string arguments and of the runtime's objects.
Strings == {<<97>>}

\* The primitive values of the argument specification: one per type, with
\* the sign bit set in every byte.
SmallPrims ==
    {Val(t, [i \in 1..SizeOf(t) |-> 255]) : t \in PrimTypes \ {"bool"}}
        \cup {Val("bool", <<1>>)}

\* The primitive values of the value specification: every type over ByteVals.
WidePrims ==
    UNION {{Val(t, b) : b \in ByteSeqs(SizeOf(t))} : t \in PrimTypes \ {"bool"}}
        \cup {Val("bool", <<0>>), Val("bool", <<1>>)}

\* The types takeOwnership... is instantiated with on a jobject of the caller's.
OwnedTypes == {"wrapper::Object", "string", "jobject"}

IsWrapperValue(v) == v.type \in WrapperTypes

\* The native values the caller holds: the live copies of the values
\* takeOwnership... returned.
HeldNatives == {n.val : n \in {m \in natives : m.copies > 0}}

\* The arguments of an object type nativeToJava can be called with.
ObjectArguments ==
    {v \in HeldNatives : v.type \in WrapperTypes \cup {"jobject"}}
        \cup {JObject(h) : h \in incoming}
        \cup {Val("string", s) : s \in Strings}

---------------------------------------------------------------------------
(* The state after construction. *)

Init ==
    /\ refs = <<>>
    /\ createdJavaObjects = <<>>
    /\ incoming = {}
    /\ natives = {}
    /\ pending = {}
    /\ lastCall = Call("none", "void")
    /\ ret = NoValue
    /\ arg = NoValue
    /\ nat = NoValue
    /\ sigStatic = [t \in SigTypes |-> [init |-> FALSE, sig |-> ""]]

---------------------------------------------------------------------------
(* The operations of the ownership specification. *)

\* The runtime hands native code a local reference to an object: the
\* "jobject reference [that] is local" takeOwnership... is called with.
JavaReturnsLocal(s) ==
    /\ Len(refs) < MaxRefs
    /\ refs' = NewLocal(refs, "runtime", s)
    /\ incoming' = incoming \cup {Len(refs) + 1}
    /\ lastCall' = Call("caller", "void")
    /\ ret' = NoValue /\ arg' = NoValue /\ nat' = NoValue
    /\ UNCHANGED <<createdJavaObjects, natives, pending, sigStatic>>

\* nativeToJava(a, createdJavaObjects); a returned jobject is needed until
\* the runtime has consumed it.
NativeToJava(a) ==
    /\ a.type \in ObjectTypes => Cardinality(pending) < MaxPending
    /\ a.type = "string" => Len(refs) + 2 <= MaxRefs
    /\ nativeToJava(a)
    /\ arg' = a
    /\ nat' = NoValue
    /\ lastCall' = Call("nativeToJava", a.type)
    /\ pending' = IF a.type \in ObjectTypes
                  THEN pending \cup {[h |-> Handle(ret'), origin |-> a.type]}
                  ELSE pending
    /\ UNCHANGED <<incoming, natives, sigStatic>>

\* takeOwnershipOfJavaValueAndConvertToNative<t>(JObject(h)) on a local
\* reference of the caller's, who keeps the returned native value.
TakeOwnership(t, h) ==
    /\ h \in incoming
    /\ t # "jobject" => Len(refs) < MaxRefs
    /\ takeOwnershipOfJavaValueAndConvertToNative(t, JObject(h))
    /\ natives' = natives \cup {[val |-> nat', from |-> h, copies |-> 1]}
    /\ incoming' = incoming \ {h}
    /\ lastCall' = Call("takeOwnershipOfJavaValueAndConvertToNative", t)
    /\ ret' = NoValue /\ arg' = NoValue
    /\ UNCHANGED <<createdJavaObjects, pending, sigStatic>>

\* The caller copies a native value it holds.
CopyNative(n) ==
    /\ n.copies \in 1..(MaxCopies - 1)
    /\ natives' = (natives \ {n}) \cup {[n EXCEPT !.copies = @ + 1]}
    /\ refs' = IF IsWrapperValue(n.val)
               THEN CopyReference(refs, Handle(n.val))
               ELSE refs
    /\ lastCall' = Call("caller", "void")
    /\ ret' = NoValue /\ arg' = NoValue /\ nat' = NoValue
    /\ UNCHANGED <<createdJavaObjects, incoming, pending, sigStatic>>

\* The caller destroys one copy of a native value it holds.
DestroyNative(n) ==
    /\ n.copies > 0
    /\ natives' = (natives \ {n}) \cup {[n EXCEPT !.copies = @ - 1]}
    /\ refs' = IF IsWrapperValue(n.val)
               THEN DestroyReference(refs, Handle(n.val))
               ELSE refs
    /\ lastCall' = Call("caller", "void")
    /\ ret' = NoValue /\ arg' = NoValue /\ nat' = NoValue
    /\ UNCHANGED <<createdJavaObjects, incoming, pending, sigStatic>>

\* "The object references stored in the list must be kept alive as long as
\* the returned java value is needed.  Afterwards they can simply be
\* deleted": the caller deletes the references stored in createdJavaObjects
\* when the runtime has consumed the returned values.
DeleteCreatedJavaObjects ==
    /\ createdJavaObjects # <<>>
    /\ pending = {}
    /\ refs' = DestroyAll(refs, createdJavaObjects)
    /\ createdJavaObjects' = <<>>
    /\ lastCall' = Call("caller", "void")
    /\ ret' = NoValue /\ arg' = NoValue /\ nat' = NoValue
    /\ UNCHANGED <<incoming, natives, pending, sigStatic>>

\* The runtime consumes a jobject it was handed.
RuntimeConsumes(p) ==
    /\ p \in pending
    /\ pending' = pending \ {p}
    /\ lastCall' = Call("caller", "void")
    /\ ret' = NoValue /\ arg' = NoValue /\ nat' = NoValue
    /\ UNCHANGED <<refs, createdJavaObjects, incoming, natives, sigStatic>>

Next ==
    \/ \E s \in Strings : JavaReturnsLocal(s)
    \/ \E a \in ObjectArguments : NativeToJava(a)
    \/ \E t \in OwnedTypes, h \in incoming : TakeOwnership(t, h)
    \/ \E n \in natives : CopyNative(n)
    \/ \E n \in natives : DestroyNative(n)
    \/ DeleteCreatedJavaObjects
    \/ \E p \in pending : RuntimeConsumes(p)

Spec == Init /\ [][Next]_vars

---------------------------------------------------------------------------
(* The argument specification: a caller converts the arguments of a Java   *)
(* method call, of any type, with one createdJavaObjects list, and deletes *)
(* the list's references after the call.                                   *)

NextArguments ==
    \/ \E s \in Strings : JavaReturnsLocal(s)
    \/ \E a \in ObjectArguments \cup SmallPrims : NativeToJava(a)
    \/ \E t \in OwnedTypes, h \in incoming : TakeOwnership(t, h)
    \/ DeleteCreatedJavaObjects
    \/ \E p \in pending : RuntimeConsumes(p)

SpecArguments == Init /\ [][NextArguments]_vars

---------------------------------------------------------------------------
(* The value specification: a primitive value is converted to its Java     *)
(* value and back.                                                         *)

InitValue ==
    /\ Init!1 /\ Init!2 /\ Init!3 /\ Init!4 /\ Init!5
    /\ lastCall = Call("none", "void")
    /\ ret = NoValue
    /\ arg \in WidePrims
    /\ nat = NoValue
    /\ sigStatic = [t \in SigTypes |-> [init |-> FALSE, sig |-> ""]]

ValueToJava ==
    /\ lastCall.fn = "none"
    /\ nativeToJava(arg)
    /\ lastCall' = Call("nativeToJava", arg.type)
    /\ UNCHANGED <<arg, nat, incoming, natives, pending, sigStatic>>

ValueToNative ==
    /\ lastCall.fn = "nativeToJava"
    /\ takeOwnershipOfJavaValueAndConvertToNative(arg.type, ret)
    /\ lastCall' = Call("takeOwnershipOfJavaValueAndConvertToNative", arg.type)
    /\ UNCHANGED <<arg, ret, createdJavaObjects, incoming, natives, pending, sigStatic>>

NextValue == ValueToJava \/ ValueToNative

SpecValue == InitValue /\ [][NextValue]_vars

---------------------------------------------------------------------------
(* The signature specification: getJavaSignature is called for any type,   *)
(* any number of times.                                                    *)

GetJavaSignature(t) ==
    /\ getJavaSignature(t)
    /\ lastCall' = Call("getJavaSignature", t)
    /\ UNCHANGED <<arg, nat, ownVars>>

NextSig == \E t \in SigTypes : GetJavaSignature(t)

SpecSig == Init /\ [][NextSig]_vars

---------------------------------------------------------------------------
(* The claims. *)

Range(f) == {f[i] : i \in DOMAIN f}

Remove(f, i) == SubSeq(f, 1, i - 1) \o SubSeq(f, i + 1, Len(f))

TakeOwnershipFn == "takeOwnershipOfJavaValueAndConvertToNative"

\* The native values of a wrapper type the caller was returned.
Wrappers == {n \in natives : IsWrapperValue(n.val)}

\* The references to the objects nativeToJava created.
Created == {h \in 1..Len(refs) : refs[h].by = "NewStringUTF"}

\* C1, as claimed: every jobject nativeToJava returned, from a wrapper
\* object, a std::string or a jobject, is a valid reference until the runtime
\* has consumed it, the references stored in createdJavaObjects being kept
\* alive all the while (the list is deleted only when nothing is pending).
C1_ValidWhileListKept == \A p \in pending : IsLive(p.h)

\* C1, amended: a jobject returned for a std::string is valid until the
\* runtime has consumed it while the list's references are kept alive; one
\* returned for a wrapper object is valid while a copy of a native object
\* sharing its Reference is alive; one returned for a jobject is the handle
\* passed in, valid while the caller has not given that handle to a
\* takeOwnership... conversion that deletes it.
C1_ValidWhileOwnerAlive ==
    \A p \in pending :
        /\ p.origin = "string" => IsLive(p.h) /\ p.h \in Range(createdJavaObjects)
        /\ p.origin \in WrapperTypes =>
               ((\E n \in Wrappers : Handle(n.val) = p.h /\ n.copies > 0)
                    => IsLive(p.h))
        /\ p.origin = "jobject" =>
               ((p.h \in incoming \/ \E n \in natives : n.val = JObject(p.h))
                    => IsLive(p.h))

\* C1's case: a jobject returned for a std::string is pending with its
\* reference in the list, and a jobject returned for a wrapper object is
\* pending after the last copy of the wrapper object was destroyed.
C1_Witness ==
    /\ \E p \in pending : p.origin = "string" /\ createdJavaObjects = <<p.h>>
    /\ \E p \in pending : p.origin \in WrapperTypes /\ ~IsLive(p.h)

\* C2: the std::string conversion stores the reference to the object it
\* creates in createdJavaObjects: the list is one reference longer, the new
\* reference refers to the object of the returned jobject, and the
\* references already in the list are there as before, unchanged.
C2_StringAppendsOneReference ==
    [][lastCall'.fn = "nativeToJava" /\ lastCall'.type = "string" =>
          /\ Len(createdJavaObjects') = Len(createdJavaObjects) + 1
          /\ \E i \in 1..Len(createdJavaObjects') :
                 /\ refs'[createdJavaObjects'[i]].obj = refs'[Handle(ret')].obj
                 /\ refs'[createdJavaObjects'[i]].live
                 /\ refs'[Handle(ret')].live
                 /\ Remove(createdJavaObjects', i) = createdJavaObjects
          /\ \A h \in Range(createdJavaObjects) : refs'[h] = refs[h]]_vars

\* C2's case: the std::string conversion has returned with a reference
\* already in the list.
C2_Witness ==
    /\ lastCall = Call("nativeToJava", "string")
    /\ Len(createdJavaObjects) = 2
    /\ ret = JObject(createdJavaObjects[2])

\* C3: for the wrapper types, std::string and jobject, once the native value
\* takeOwnership... returned and all its copies are destroyed, the local
\* jobject reference it was called with has been deleted.
C3_LocalDeletedWithLastCopy ==
    \A n \in natives : n.copies = 0 => ~IsLive(n.from)

\* C4: the native object takeOwnership... returns for a wrapper type keeps
\* a reference to the Java object, which is not released while the object
\* or a copy of it is alive, and is released exactly once when the last of
\* them is destroyed.
C4_ReleasedOnceWithLastCopy ==
    \A n \in Wrappers :
        LET g == Handle(n.val)
        IN  /\ refs[g].obj = refs[n.from].obj
            /\ n.copies > 0 => refs[g].live /\ refs[g].deletes = 0
            /\ n.copies = 0 => ~refs[g].live /\ refs[g].deletes = 1

\* C4's case: one wrapper object was copied, another was destroyed with all
\* its copies.
C4_Witness ==
    /\ \E n \in Wrappers : n.copies = MaxCopies
    /\ \E n \in Wrappers : n.copies = 0

\* C5: when the references in createdJavaObjects have been deleted, every
\* reference to an object the nativeToJava calls created is released; and
\* none is ever released more than once.
C5_DeletingListReleasesCreated ==
    /\ \A h \in Created : refs[h].deletes <= 1
    /\ createdJavaObjects = <<>> =>
           \A h \in Created : ~refs[h].live /\ refs[h].deletes = 1

\* C5's case: the list two nativeToJava calls shared has been deleted.
C5_Witness ==
    /\ createdJavaObjects = <<>>
    /\ Cardinality({h \in Created : refs[h].kind = "global"}) = 2

\* The signatures of C6.
ClassNames == {"java/lang/String", "java/lang/Object"}

C6_Signature(t) ==
    CASE t = "int" -> "I"
      [] t = "short" -> "S"
      [] t = "double" -> "D"
      [] t = "float" -> "F"
      [] t = "int64_t" -> "J"
      [] t = "char32_t" -> "C"
      [] t = "int8_t" -> "B"
      [] t = "bool" -> "Z"
      [] t = "void" -> "V"
      [] t = "Color" -> "I"
      [] t = "string" -> "Ljava/lang/String;"
      [] t = "jobject" -> "Ljava/lang/Object;"
      [] t \in WrapperTypes -> getSignature_(getStaticClass_(t))

\* C6: getJavaSignature returns the fixed signature of its native type on
\* every call: the character of a simple type, "LClassName;" for an object
\* type.
C6_FixedSignature ==
    /\ lastCall.fn = "getJavaSignature" =>
           /\ ret = Val("std::string", C6_Signature(lastCall.type))
           /\ lastCall.type \in ObjectTypes =>
                  \E cls \in ClassNames : ret.bytes = "L" \o cls \o ";"
    /\ \A t \in SigTypes : sigStatic[t].init => sigStatic[t].sig = C6_Signature(t)

\* C6's case: getJavaSignature of a wrapper type is called again, after
\* every static has been constructed.
C6_Witness ==
    /\ lastCall = Call("getJavaSignature", "wrapper::String")
    /\ \A t \in SigTypes : sigStatic[t].init

\* The specializations of C7.
C7_Types == WrapperTypes \cup {"Color", "jobject", "int", "short", "double",
                               "float", "int64_t", "char32_t", "int8_t", "bool"}

\* C7: nativeToJava of a type that creates no Java object leaves
\* createdJavaObjects as it was.
C7_ListUnchanged ==
    [][lastCall'.fn = "nativeToJava" /\ lastCall'.type \in C7_Types =>
          createdJavaObjects' = createdJavaObjects]_vars

\* C7's case: nativeToJava of a wrapper object has returned with a
\* reference in the list.
C7_Witness ==
    /\ lastCall.fn = "nativeToJava"
    /\ lastCall.type \in WrapperTypes
    /\ createdJavaObjects # <<>>

\* The specializations of C8.
C8_Types == {"int", "short", "int64_t", "int8_t", "bool"}

\* C8: for int, short, int64_t, int8_t and bool, the native value converted
\* to its Java value and back is the value itself.
C8_RoundTrip ==
    lastCall.fn = TakeOwnershipFn /\ lastCall.type \in C8_Types => nat = arg

\* C8's case: a negative int64_t whose low half is zero has made the round
\* trip.
C8_Witness ==
    /\ lastCall = Call(TakeOwnershipFn, "int64_t")
    /\ arg.bytes = <<0, 0, 0, 0, 128, 0, 0, 255>>
    /\ nat.type = "int64_t"

===========================================================================
